---- MODULE Spec2Model ----
(***************************************************************************)
(* Link verification engine of htmltest (check-link.go): CheckLink and the *)
(* checkers it routes to, CheckExternal, CheckInternal / CheckFile,        *)
(* CheckMailto and CheckTel, together with the result cache, the issue     *)
(* sink, the HTTP client and the file system they act on.                  *)
(*                                                                         *)
(* A Go string is a tuple of one-character strings, so that prefix,        *)
(* suffix, substring and URL parsing are computed and not assumed.         *)
(* A message (of an issue, of an error) is a tuple of tokens: a literal of  *)
(* the source is one token, a spliced-in URL is its characters.            *)
(***************************************************************************)
EXTENDS Integers, Sequences, FiniteSets, TLC

\* ------------------------------------------------------------------------
\* Bounds of the model
\* ------------------------------------------------------------------------
\* number of concurrent workers, each running CheckLink on one node at a time
NumWorkers == 2
\* number of nodes checked in one run
MaxChecks == 2

\* ------------------------------------------------------------------------
\* Go strings
\* ------------------------------------------------------------------------
\* strings.Index for a one-character separator: first position of c, 0 if none
IndexOf(s, c) ==
    IF \E i \in 1..Len(s) : s[i] = c
    THEN CHOOSE i \in 1..Len(s) : s[i] = c /\ \A j \in 1..(i - 1) : s[j] # c
    ELSE 0

HasPrefix(s, p) == Len(p) <= Len(s) /\ SubSeq(s, 1, Len(p)) = p

HasSuffix(s, p) == Len(p) <= Len(s) /\ SubSeq(s, Len(s) - Len(p) + 1, Len(s)) = p

Contains(s, p) == \E i \in 0..(Len(s) - Len(p)) : SubSeq(s, i + 1, i + Len(p)) = p

TrimPrefix(s, p) == IF HasPrefix(s, p) THEN SubSeq(s, Len(p) + 1, Len(s)) ELSE s

UpperChars == <<"A", "B", "C", "D", "E", "F", "G", "H", "I", "J", "K", "L", "M",
                "N", "O", "P", "Q", "R", "S", "T", "U", "V", "W", "X", "Y", "Z">>

LowerChars == <<"a", "b", "c", "d", "e", "f", "g", "h", "i", "j", "k", "l", "m",
                "n", "o", "p", "q", "r", "s", "t", "u", "v", "w", "x", "y", "z">>

IsLetter(c) == \E i \in 1..Len(LowerChars) : c = LowerChars[i] \/ c = UpperChars[i]

IsDigit(c) == c \in {"0", "1", "2", "3", "4", "5", "6", "7", "8", "9"}

ToLowerChar(c) ==
    IF \E i \in 1..Len(UpperChars) : UpperChars[i] = c
    THEN LowerChars[CHOOSE i \in 1..Len(UpperChars) : UpperChars[i] = c]
    ELSE c

ToLower(s) == [i \in 1..Len(s) |-> ToLowerChar(s[i])]

\* ------------------------------------------------------------------------
\* net/url Parse, as htmldoc.NewReference uses it
\* ------------------------------------------------------------------------
\* getScheme: the position of the ':' that ends a scheme; 0 when the string
\* has no scheme; -1 for "missing protocol scheme" (the string starts with ':')
RECURSIVE SchemeEnd(_, _)
SchemeEnd(s, i) ==
    IF i > Len(s) THEN 0
    ELSE IF IsLetter(s[i]) THEN SchemeEnd(s, i + 1)
    ELSE IF IsDigit(s[i]) \/ s[i] \in {"+", "-", "."}
         THEN (IF i = 1 THEN 0 ELSE SchemeEnd(s, i + 1))
    ELSE IF s[i] = ":" THEN (IF i = 1 THEN -1 ELSE i)
    ELSE 0

\* the part of s before the first c (all of s when there is none)
Before(s, c) == IF IndexOf(s, c) = 0 THEN s ELSE SubSeq(s, 1, IndexOf(s, c) - 1)

\* the part of s after the first c (empty when there is none)
After(s, c) == IF IndexOf(s, c) = 0 THEN <<>> ELSE SubSeq(s, IndexOf(s, c) + 1, Len(s))

EmptyURL ==
    [ok |-> FALSE, Scheme |-> <<>>, Opaque |-> <<>>, Host |-> <<>>,
     Path |-> <<>>, RawQuery |-> <<>>, Fragment |-> <<>>]

URLParse(raw) ==
    LET frag   == After(raw, "#")
        noFrag == Before(raw, "#")
        se     == SchemeEnd(noFrag, 1)
        scheme == IF se > 0 THEN ToLower(SubSeq(noFrag, 1, se - 1)) ELSE <<>>
        rest0  == IF se > 0 THEN SubSeq(noFrag, se + 1, Len(noFrag)) ELSE noFrag
        query  == After(rest0, "?")
        rest   == Before(rest0, "?")
        auth   == IF HasPrefix(rest, <<"/", "/">>) THEN SubSeq(rest, 3, Len(rest)) ELSE <<>>
    IN  IF se = -1 THEN EmptyURL
        ELSE IF ~HasPrefix(rest, <<"/">>) /\ scheme # <<>>
        THEN [ok |-> TRUE, Scheme |-> scheme, Opaque |-> rest, Host |-> <<>>,
              Path |-> <<>>, RawQuery |-> query, Fragment |-> frag]
        ELSE IF HasPrefix(rest, <<"/", "/">>)
        THEN [ok |-> TRUE, Scheme |-> scheme, Opaque |-> <<>>,
              Host |-> Before(auth, "/"),
              Path |-> IF IndexOf(auth, "/") = 0 THEN <<>>
                       ELSE SubSeq(auth, IndexOf(auth, "/"), Len(auth)),
              RawQuery |-> query, Fragment |-> frag]
        ELSE [ok |-> TRUE, Scheme |-> scheme, Opaque |-> <<>>, Host |-> <<>>,
              Path |-> rest, RawQuery |-> query, Fragment |-> frag]


\* ------------------------------------------------------------------------
\* Literals of the source
\* ------------------------------------------------------------------------
HTTP == <<"h", "t", "t", "p">>
HTTPS == <<"h", "t", "t", "p", "s">>
FILE == <<"f", "i", "l", "e">>
MAILTO == <<"m", "a", "i", "l", "t", "o">>
TEL == <<"t", "e", "l">>
CANONICAL == <<"c", "a", "n", "o", "n", "i", "c", "a", "l">>

NoRef == 0

\* ------------------------------------------------------------------------
\* htmldoc: Reference and its URL
\* ------------------------------------------------------------------------
\* the attribute list of a node is a sequence of [Key, Val]
attrPresent(attr, key) == \E i \in 1..Len(attr) : attr[i].Key = key

\* extractAttrs(...)[key]: the value of the attribute, "" when it is absent
attrValue(attr, key) ==
    IF attrPresent(attr, key)
    THEN attr[CHOOSE i \in 1..Len(attr) : attr[i].Key = key].Val
    ELSE <<>>

NewReference(document, node, href) ==
    LET u == URLParse(href)
    IN  [Document |-> document,
         Path     |-> href,
         URL      |-> u,
         Scheme   |-> IF ~u.ok THEN <<>>
                      ELSE IF u.Scheme = <<>> /\ u.Path # <<>> THEN FILE
                      ELSE u.Scheme]

URLString(ref) ==
    ref.URL.Scheme \o <<":", "/", "/">> \o ref.URL.Host \o ref.URL.Path
        \o (IF ref.URL.RawQuery = <<>> THEN <<>> ELSE <<"?">> \o ref.URL.RawQuery)

URLStripQueryString(urlStr) == Before(urlStr, "?")

InList(list, key) == \E item \in list : Contains(key, item)

\* path.Clean for paths without "." and ".." elements
RECURSIVE CollapseSlashes(_)
CollapseSlashes(s) ==
    IF Len(s) < 2 THEN s
    ELSE IF s[1] = "/" /\ s[2] = "/" THEN CollapseSlashes(Tail(s))
    ELSE <<s[1]>> \o CollapseSlashes(Tail(s))

PathClean(s) ==
    LET c == CollapseSlashes(s)
    IN  IF c = <<>> THEN <<".">>
        ELSE IF Len(c) > 1 /\ c[Len(c)] = "/" THEN SubSeq(c, 1, Len(c) - 1)
        ELSE c

PathJoin(a, b) ==
    IF a = <<>> /\ b = <<>> THEN <<>>
    ELSE IF a = <<>> THEN PathClean(b)
    ELSE IF b = <<>> THEN PathClean(a)
    ELSE PathClean(a \o <<"/">> \o b)

\* the target of a file reference, relative to the site root
AbsolutePath(ref) ==
    IF HasPrefix(ref.URL.Path, <<"/">>) THEN PathClean(ref.URL.Path)
    ELSE PathJoin(ref.Document.Directory, ref.URL.Path)

\* ------------------------------------------------------------------------
\* net/http
\* ------------------------------------------------------------------------
StatusOK == 200
StatusPartialContent == 206
StatusNotFound == 404
StatusServiceUnavailable == 503

StatusText(code) ==
    IF code = StatusOK THEN <<"OK">>
    ELSE IF code = StatusPartialContent THEN <<"Partial Content">>
    ELSE IF code = StatusNotFound THEN <<"Not Found">>
    ELSE IF code = StatusServiceUnavailable THEN <<"Service Unavailable">>
    ELSE <<"">>

\* the status codes the remote servers of the model answer with
StatusCodes == {StatusOK, StatusPartialContent, StatusNotFound, StatusServiceUnavailable}

\* err.Error() of the errors httpClient.Do returns for a request of urlStr
ErrLookup(urlStr) ==
    <<"Get ">> \o urlStr \o <<": ", "dial tcp", ": lookup ", "h: no such host">>

ErrRefused(urlStr) ==
    <<"Get ">> \o urlStr \o <<": ", "dial tcp", " 10.0.0.1:80: connection refused">>

ErrTimeout(urlStr) ==
    <<"Get ">> \o urlStr \o <<": net/http: request canceled (", "Client.Timeout", " exceeded)">>

ErrOther(urlStr) == <<"Get ">> \o urlStr \o <<": ", "EOF">>

\* what httpClient.Do(req) can return: a response with a status, or an error
DoOutcomes(urlStr) ==
    [err : {<<>>}, StatusCode : StatusCodes]
        \cup [err : {ErrLookup(urlStr), ErrRefused(urlStr), ErrTimeout(urlStr), ErrOther(urlStr)},
              StatusCode : {0}]

\* ------------------------------------------------------------------------
\* The site on disk: os.Stat
\* ------------------------------------------------------------------------
DirectoryPath == <<"s">>
DirectoryIndex == <<"i">>

\* d has an index file, e has none; the index of g is a directory with an
\* index file, the index of k a directory without one; x and the index of m
\* cannot be looked up
SiteDirs ==
    {<<"s">>, <<"s", "/", "d">>, <<"s", "/", "e">>, <<"s", "/", "g">>, <<"s", "/", "g", "/", "i">>,
     <<"s", "/", "k">>, <<"s", "/", "k", "/", "i">>, <<"s", "/", "m">>}
SiteFiles == {<<"s", "/", "f">>, <<"s", "/", "d", "/", "i">>, <<"s", "/", "g", "/", "i", "/", "i">>}
SiteDenied == {<<"s", "/", "x">>, <<"s", "/", "m", "/", "i">>}

\* "dir", "file", "notexist" (os.IsNotExist(err)) or "error" (any other error)
Stat(checkPath) ==
    IF checkPath \in SiteDirs THEN "dir"
    ELSE IF checkPath \in SiteFiles THEN "file"
    ELSE IF checkPath \in SiteDenied THEN "error"
    ELSE "notexist"


\* ------------------------------------------------------------------------
\* The nodes of the run
\* ------------------------------------------------------------------------
HrefBlank == <<>>
HrefHash == <<"#">>
HrefHttp == <<"h", "t", "t", "p", ":", "/", "/", "h", "/", "p">>
HrefHttps == <<"h", "t", "t", "p", "s", ":", "/", "/", "h", "/", "p">>
HrefHttpsQuery == <<"h", "t", "t", "p", "s", ":", "/", "/", "h", "/", "p", "?", "q">>
HrefHttpsUpper == <<"H", "T", "T", "P", "S", ":", "/", "/", "h", "/", "p", "#", "t">>
HrefFile == <<"f">>
HrefDirSlash == <<"d", "/">>
HrefDirNoSlash == <<"d">>
HrefDirNoIndex == <<"e", "/">>
HrefDirNested == <<"g", "/">>
HrefDirNestedMissing == <<"k", "/">>
HrefDirIndexDenied == <<"m", "/">>
HrefMissing == <<"n">>
HrefDenied == <<"x">>
HrefRooted == <<"/", "d", "/", "i">>
HrefMailtoEmpty == <<"m", "a", "i", "l", "t", "o", ":">>
HrefMailtoNoAt == <<"m", "a", "i", "l", "t", "o", ":", "a">>
HrefMailtoOk == <<"m", "a", "i", "l", "t", "o", ":", "a", "@", "b">>
HrefTelEmpty == <<"t", "e", "l", ":">>
HrefTelOk == <<"t", "e", "l", ":", "1">>
HrefFtp == <<"f", "t", "p", ":", "/", "/", "h", "/", "p">>
HrefUnparseable == <<":", "a">>

Hrefs ==
    {HrefBlank, HrefHash, HrefHttp, HrefHttps,
     HrefHttpsQuery, HrefHttpsUpper, HrefFile, HrefDirSlash,
     HrefDirNoSlash, HrefDirNoIndex, HrefDirNested, HrefMissing,
     HrefDenied, HrefRooted, HrefMailtoEmpty, HrefMailtoNoAt,
     HrefMailtoOk, HrefTelEmpty, HrefTelOk, HrefFtp,
     HrefUnparseable, HrefDirNestedMissing, HrefDirIndexDenied}

\* documents: one in the site root, one in the directory d
RootDoc == [Directory |-> <<>>]
SubDoc == [Directory |-> <<"d">>]
NoDoc == [Directory |-> <<"nil">>]

Attr(key, val) == [Key |-> key, Val |-> val]

Node(data, attr, doc) == [Data |-> data, Attr |-> attr, Document |-> doc]

\* <a href=...> for every href; nodes without href; canonical and ignored
\* nodes; a relative link of a document in a subdirectory
Nodes ==
    {Node("a", <<Attr("href", h)>>, RootDoc) : h \in Hrefs}
    \cup {Node(d, <<>>, RootDoc) : d \in {"a", "link", "area"}}
    \cup {Node("area", <<Attr("href", HrefHash)>>, RootDoc),
          Node("link", <<Attr("rel", CANONICAL), Attr("href", HrefHttps)>>, RootDoc),
          Node("link", <<Attr("rel", CANONICAL)>>, RootDoc),
          Node("a", <<Attr("href", HrefBlank), Attr("data-proofer-ignore", <<>>)>>, RootDoc),
          Node("a", <<Attr("href", HrefMissing), Attr("data-proofer-ignore", <<>>)>>, RootDoc),
          Node("a", <<Attr("href", HrefHash), Attr("data-proofer-ignore", <<>>)>>, RootDoc),
          Node("a", <<Attr("href", <<"i">>)>>, SubDoc)}

\* ------------------------------------------------------------------------
\* Options
\* ------------------------------------------------------------------------
OptsDefault ==
    [EnforceHTTPS |-> FALSE, CheckExternal |-> TRUE, CheckInternal |-> TRUE,
     CheckMailto |-> TRUE, CheckTel |-> TRUE, StripQueryString |-> TRUE,
     StripQueryExcludes |-> {}]

\* the configurations of a run: every setting of the options CheckExternal
\* reads (those it reads only when it is enabled are varied only then), and
\* each of the other checkers switched off
OptsSet ==
    {[OptsDefault EXCEPT !.EnforceHTTPS = e, !.StripQueryString = s,
                         !.StripQueryExcludes = x] :
        e \in BOOLEAN, s \in BOOLEAN, x \in {{}, {<<"/", "p", "?">>}}}
    \cup {[OptsDefault EXCEPT !.EnforceHTTPS = e, !.CheckExternal = FALSE] : e \in BOOLEAN}
    \cup {[OptsDefault EXCEPT !.CheckInternal = FALSE],
          [OptsDefault EXCEPT !.CheckMailto = FALSE],
          [OptsDefault EXCEPT !.CheckTel = FALSE]}

\* ------------------------------------------------------------------------
\* State
\* ------------------------------------------------------------------------
VARIABLES
    Opts,       \* the options of the run
    cache,      \* refcache: URL string -> status code
    issues,     \* the issue sink: the issues added so far, in order
    checks,     \* the calls of CheckLink, in order: the node and its Reference
    workers,    \* per worker: where its CheckLink call is, and its locals
    log,        \* the cache, network and file system accesses made so far
    aborted     \* checkErr has ended the process

vars == <<Opts, cache, issues, checks, workers, log, aborted>>

Workers == 1..NumWorkers
Main == 1

Idle == [pc |-> "idle", id |-> 0, urlStr |-> <<>>, resp |-> 0, statusCode |-> 0, fPath |-> <<>>]

Init ==
    /\ Opts \in OptsSet
    /\ cache = <<>>
    /\ issues = <<>>
    /\ checks = <<>>
    /\ workers = [w \in Workers |-> Idle]
    /\ log = <<>>
    /\ aborted = FALSE

\* the node of call id
NodeOf(id) == checks[id].node

\* ref of call id: the Reference CheckLink creates for its node
RefOf(id) == checks[id].ref

\* refcache.CachedURLStatus: 0 for a URL that is not in the map
CachedURLStatus(urlStr) == IF urlStr \in DOMAIN cache THEN cache[urlStr] ELSE 0

\* refcache.SetCachedURLStatus
SetCachedURLStatus(c, urlStr, statusCode) ==
    [k \in DOMAIN c \cup {urlStr} |-> IF k = urlStr THEN statusCode ELSE c[k]]

Issue(level, message, id) ==
    [Level |-> level, Message |-> message, Reference |-> id, Document |-> NoDoc, by |-> id]

DocIssue(level, message, id, doc) ==
    [Level |-> level, Message |-> message, Reference |-> NoRef, Document |-> doc, by |-> id]

\* issues.AddIssue
AddIssue(issue) == issues' = Append(issues, issue)

\* one access of call id: op is "call" (a checker is entered), "get" and "set"
\* (refcache), "do" (httpClient.Do) or "stat" (os.Stat); val is the status
\* code read, received (0: an error) or written; at is the number of issues
\* in the sink at the time
Access(op, id, arg, val) ==
    [op |-> op, by |-> id, arg |-> arg, val |-> val, at |-> Len(issues)]

Return(w) == workers' = [workers EXCEPT ![w] = Idle]

Goto(w, pc) == workers' = [workers EXCEPT ![w].pc = pc]


\* ------------------------------------------------------------------------
\* CheckLink
\* ------------------------------------------------------------------------
\* Route without the case "tel"
RouteNoTel(scheme) ==
    IF scheme = HTTP THEN "CheckExternal"
    ELSE IF scheme = HTTPS THEN "CheckExternal"
    ELSE IF scheme = FILE THEN "CheckInternal"
    ELSE IF scheme = MAILTO THEN "CheckMailto"
    ELSE "idle"

\* Route with the case "http" reporting only, without its call of CheckExternal
RouteHttpUnchecked(scheme) ==
    IF scheme = HTTPS THEN "CheckExternal"
    ELSE IF scheme = FILE THEN "CheckInternal"
    ELSE IF scheme = MAILTO THEN "CheckMailto"
    ELSE IF scheme = TEL THEN "CheckTel"
    ELSE "idle"

\* the checker the switch on ref.Scheme calls, "idle" when it calls none
Route(scheme) ==
    IF scheme = HTTP THEN "CheckExternal"
    ELSE IF scheme = HTTPS THEN "CheckExternal"
    ELSE IF scheme = FILE THEN "CheckInternal"
    ELSE IF scheme = MAILTO THEN "CheckMailto"
    ELSE IF scheme = TEL THEN "CheckTel"
    ELSE "idle"

\* attrs["rel"] == "canonical"
IsCanonical(node) == attrValue(node.Attr, "rel") = CANONICAL

\* the test for data-proofer-ignore left out
IsIgnoredNever(node) == FALSE

\* attrPresent(node.Attr, "data-proofer-ignore")
IsIgnored(node) == attrPresent(node.Attr, "data-proofer-ignore")

\* the check for a blank href left out
IsBlankNever(href) == FALSE

\* attrs["href"] == ""
IsBlank(href) == href = <<>>

\* the check for href="#" left out
IsEmptyHashNever(href) == FALSE

\* attrs["href"] == "#"
IsEmptyHash(href) == href = <<"#">>

\* the issues the case of the scheme adds before it calls its checker
Enforce(scheme, id, opts) ==
    IF scheme = HTTP /\ opts.EnforceHTTPS
    THEN <<Issue("ERROR", <<"is not an HTTPS target">>, id)>>
    ELSE <<>>

\* CheckLinkEntry without the case "link" in the switch for an absent href
CheckLinkEntryNoLinkCase(node, id, opts) ==
    LET href == attrValue(node.Attr, "href")
        ref  == NewReference(node.Document, node, href)
    IN  IF IsCanonical(node)
        THEN [emit |-> <<>>, pc |-> "idle"]
        ELSE IF IsIgnored(node)
        THEN [emit |-> <<>>, pc |-> "idle"]
        ELSE IF ~attrPresent(node.Attr, "href") /\ node.Data = "a"
        THEN [emit |-> <<DocIssue("DEBUG", <<"anchor without href">>, id, node.Document)>>,
              pc |-> "idle"]
        ELSE IF IsBlank(href)
        THEN [emit |-> <<Issue("ERROR", <<"href blank">>, id)>>, pc |-> "idle"]
        ELSE IF IsEmptyHash(href)
        THEN [emit |-> <<Issue("ERROR", <<"empty hash">>, id)>>, pc |-> "idle"]
        ELSE [emit |-> Enforce(ref.Scheme, id, opts), pc |-> Route(ref.Scheme)]

\* CheckLink up to the call of a checker: the issues it adds itself and the
\* checker it goes on with ("idle": it returns)
CheckLinkEntry(node, id, opts) ==
    LET href == attrValue(node.Attr, "href")
        ref  == NewReference(node.Document, node, href)
    IN  IF IsCanonical(node)
        THEN [emit |-> <<>>, pc |-> "idle"]
        ELSE IF IsIgnored(node)
        THEN [emit |-> <<>>, pc |-> "idle"]
        ELSE IF ~attrPresent(node.Attr, "href") /\ node.Data = "a"
        THEN [emit |-> <<DocIssue("DEBUG", <<"anchor without href">>, id, node.Document)>>,
              pc |-> "idle"]
        ELSE IF ~attrPresent(node.Attr, "href") /\ node.Data = "link"
        THEN [emit |-> <<DocIssue("ERROR", <<"link tag missing href">>, id, node.Document)>>,
              pc |-> "idle"]
        ELSE IF IsBlank(href)
        THEN [emit |-> <<Issue("ERROR", <<"href blank">>, id)>>, pc |-> "idle"]
        ELSE IF IsEmptyHash(href)
        THEN [emit |-> <<Issue("ERROR", <<"empty hash">>, id)>>, pc |-> "idle"]
        ELSE [emit |-> Enforce(ref.Scheme, id, opts), pc |-> Route(ref.Scheme)]

\* a worker takes the next node and runs CheckLink on it up to the checker
CheckLink(w) ==
    /\ ~aborted
    /\ workers[w].pc = "idle"
    /\ Len(checks) < MaxChecks
    /\ \E node \in Nodes :
         LET id == Len(checks) + 1
             e  == CheckLinkEntry(node, id, Opts)
         IN  /\ checks' = Append(checks,
                               [node |-> node,
                                ref  |-> NewReference(node.Document, node,
                                                      attrValue(node.Attr, "href"))])
             /\ issues' = issues \o e.emit
             /\ workers' = [workers EXCEPT ![w] =
                               IF e.pc = "idle" THEN Idle
                               ELSE [Idle EXCEPT !.pc = e.pc, !.id = id]]
    /\ UNCHANGED <<Opts, cache, log, aborted>>

\* ------------------------------------------------------------------------
\* CheckExternal
\* ------------------------------------------------------------------------
\* CacheKey without the stripping of the query string
CacheKeyKeepsQuery(ref, opts) == URLString(ref)

\* the URL string the cache is asked for and the request is made with
CacheKey(ref, opts) ==
    LET urlStr == URLString(ref)
    IN  IF opts.StripQueryString /\ ~InList(opts.StripQueryExcludes, urlStr)
        THEN URLStripQueryString(urlStr)
        ELSE urlStr

\* StatusLevel without the case http.StatusPartialContent
StatusLevelOnlyOK(statusCode) == IF statusCode = StatusOK THEN "DEBUG" ELSE "ERROR"

\* the level of the issue a status code is reported with
StatusLevel(statusCode) ==
    IF statusCode = StatusOK THEN "DEBUG"
    ELSE IF statusCode = StatusPartialContent THEN "DEBUG"
    ELSE "ERROR"

\* the message of the issue a failed request is reported with
ErrMessage(err, urlStr) ==
    IF Contains(err, <<"dial tcp">>)
    THEN TrimPrefix(err, <<"Get ">> \o urlStr \o <<": ", "dial tcp", ": lookup ">>)
    ELSE IF Contains(err, <<"Client.Timeout">>)
    THEN <<"request exceeded our ExternalTimeout">>
    ELSE err

\* entry of CheckExternal up to the first look into the cache
CheckExternal(w) ==
    /\ ~aborted
    /\ workers[w].pc = "CheckExternal"
    /\ LET id     == workers[w].id
           urlStr == CacheKey(RefOf(id), Opts)
       IN  IF ~Opts.CheckExternal
           THEN /\ AddIssue(Issue("DEBUG", <<"skipping">>, id))
                /\ Return(w)
                /\ log' = Append(log, Access("call", id, <<"CheckExternal">>, 0))
           ELSE /\ log' = log \o <<Access("call", id, <<"CheckExternal">>, 0),
                                   Access("get", id, urlStr, CachedURLStatus(urlStr))>>
                /\ workers' = [workers EXCEPT
                                 ![w].urlStr = urlStr,
                                 ![w].pc = IF CachedURLStatus(urlStr) # 0
                                           THEN "CacheHit" ELSE "Do"]
                /\ UNCHANGED issues
    /\ UNCHANGED <<Opts, cache, checks, aborted>>

\* statusCode = refcache.CachedURLStatus(urlStr)
CacheHit(w) ==
    /\ ~aborted
    /\ workers[w].pc = "CacheHit"
    /\ log' = Append(log, Access("get", workers[w].id, workers[w].urlStr,
                                 CachedURLStatus(workers[w].urlStr)))
    /\ workers' = [workers EXCEPT ![w].statusCode = CachedURLStatus(workers[w].urlStr),
                                  ![w].pc = "Classify"]
    /\ UNCHANGED <<Opts, cache, issues, checks, aborted>>

\* Do with the failure of a request saved in the cache like a status
DoCachesFailure(w) ==
    /\ ~aborted
    /\ workers[w].pc = "Do"
    /\ \E out \in DoOutcomes(workers[w].urlStr) :
         /\ log' = Append(log, Access("do", workers[w].id, workers[w].urlStr,
                                      out.StatusCode))
         /\ IF out.err # <<>>
            THEN /\ AddIssue(Issue("ERROR", ErrMessage(out.err, workers[w].urlStr),
                                   workers[w].id))
                 /\ cache' = SetCachedURLStatus(cache, workers[w].urlStr,
                                                StatusServiceUnavailable)
                 /\ Return(w)
            ELSE /\ workers' = [workers EXCEPT ![w].resp = out.StatusCode,
                                               ![w].pc = "Store"]
                 /\ UNCHANGED <<issues, cache>>
    /\ UNCHANGED <<Opts, checks, aborted>>

\* resp, err := httpClient.Do(req), and the report of err
Do(w) ==
    /\ ~aborted
    /\ workers[w].pc = "Do"
    /\ \E out \in DoOutcomes(workers[w].urlStr) :
         /\ log' = Append(log, Access("do", workers[w].id, workers[w].urlStr,
                                      out.StatusCode))
         /\ IF out.err # <<>>
            THEN /\ AddIssue(Issue("ERROR", ErrMessage(out.err, workers[w].urlStr),
                                   workers[w].id))
                 /\ Return(w)
            ELSE /\ workers' = [workers EXCEPT ![w].resp = out.StatusCode,
                                               ![w].pc = "Store"]
                 /\ UNCHANGED issues
    /\ UNCHANGED <<Opts, cache, checks, aborted>>

\* Store without the write to the cache
StoreSkipped(w) ==
    /\ ~aborted
    /\ workers[w].pc = "Store"
    /\ workers' = [workers EXCEPT ![w].statusCode = workers[w].resp,
                                  ![w].pc = "Classify"]
    /\ UNCHANGED <<Opts, cache, issues, checks, log, aborted>>

\* refcache.SetCachedURLStatus(urlStr, resp.StatusCode)
Store(w) ==
    /\ ~aborted
    /\ workers[w].pc = "Store"
    /\ cache' = SetCachedURLStatus(cache, workers[w].urlStr, workers[w].resp)
    /\ log' = Append(log, Access("set", workers[w].id, workers[w].urlStr,
                                 workers[w].resp))
    /\ workers' = [workers EXCEPT ![w].statusCode = workers[w].resp,
                                  ![w].pc = "Classify"]
    /\ UNCHANGED <<Opts, issues, checks, aborted>>

\* switch statusCode
Classify(w) ==
    /\ ~aborted
    /\ workers[w].pc = "Classify"
    /\ AddIssue(Issue(StatusLevel(workers[w].statusCode),
                      StatusText(workers[w].statusCode), workers[w].id))
    /\ Return(w)
    /\ UNCHANGED <<Opts, cache, checks, log, aborted>>

\* ------------------------------------------------------------------------
\* CheckInternal and CheckFile
\* ------------------------------------------------------------------------
\* CheckInternal without the return after it has reported "skipping"
CheckInternalNoReturn(w) ==
    /\ ~aborted
    /\ workers[w].pc = "CheckInternal"
    /\ log' = Append(log, Access("call", workers[w].id, <<"CheckInternal">>, 0))
    /\ IF ~Opts.CheckInternal
       THEN AddIssue(Issue("DEBUG", <<"skipping">>, workers[w].id))
       ELSE UNCHANGED issues
    /\ workers' = [workers EXCEPT ![w].fPath = AbsolutePath(RefOf(workers[w].id)),
                                  ![w].pc = "CheckFile"]
    /\ UNCHANGED <<Opts, cache, checks, aborted>>

CheckInternal(w) ==
    /\ ~aborted
    /\ workers[w].pc = "CheckInternal"
    /\ log' = Append(log, Access("call", workers[w].id, <<"CheckInternal">>, 0))
    /\ IF ~Opts.CheckInternal
       THEN /\ AddIssue(Issue("DEBUG", <<"skipping">>, workers[w].id))
            /\ Return(w)
       ELSE /\ workers' = [workers EXCEPT ![w].fPath = AbsolutePath(RefOf(workers[w].id)),
                                          ![w].pc = "CheckFile"]
            /\ UNCHANGED issues
    /\ UNCHANGED <<Opts, cache, checks, aborted>>

\* IndexPath with the arguments of path.Join swapped
IndexPathSwapped(fPath) == PathJoin(DirectoryIndex, fPath)

\* path.Join(fPath, Opts.DirectoryIndex), the target of the recursive call
IndexPath(fPath) == PathJoin(fPath, DirectoryIndex)

\* CheckFile reporting every failed lookup as "target does not exist", without
\* the crash on the other errors
CheckFileSwallowsError(w) ==
    /\ ~aborted
    /\ workers[w].pc = "CheckFile"
    /\ LET id        == workers[w].id
           ref       == RefOf(id)
           fPath     == workers[w].fPath
           checkPath == PathJoin(DirectoryPath, fPath)
           f         == Stat(checkPath)
       IN  /\ log' = Append(log, Access("stat", id, checkPath, 0))
           /\ IF f \in {"notexist", "error"}
              THEN /\ AddIssue(Issue("ERROR", <<"target does not exist">>, id))
                   /\ Return(w)
              ELSE IF f = "dir" /\ ~HasSuffix(ref.Path, <<"/">>)
              THEN /\ AddIssue(Issue("ERROR",
                                     <<"target is a directory, href lacks trailing slash">>, id))
                   /\ Return(w)
              ELSE IF f = "dir"
              THEN /\ AddIssue(Issue("DEBUG", <<"target is a directory">>, id))
                   /\ workers' = [workers EXCEPT ![w].fPath = IndexPath(fPath)]
              ELSE /\ Return(w)
                   /\ UNCHANGED issues
    /\ UNCHANGED <<Opts, cache, checks, aborted>>

\* CheckFile without the return after "target is a directory, href lacks
\* trailing slash": it goes on to report the directory and look up its index
CheckFileNoStop(w) ==
    /\ ~aborted
    /\ workers[w].pc = "CheckFile"
    /\ LET id        == workers[w].id
           ref       == RefOf(id)
           fPath     == workers[w].fPath
           checkPath == PathJoin(DirectoryPath, fPath)
           f         == Stat(checkPath)
           noSlash   == IF HasSuffix(ref.Path, <<"/">>) THEN <<>>
                        ELSE <<Issue("ERROR",
                                     <<"target is a directory, href lacks trailing slash">>, id)>>
       IN  /\ log' = Append(log, Access("stat", id, checkPath, 0))
           /\ IF f = "notexist"
              THEN /\ AddIssue(Issue("ERROR", <<"target does not exist">>, id))
                   /\ Return(w)
                   /\ UNCHANGED aborted
              ELSE IF f = "error"
              THEN /\ aborted' = TRUE
                   /\ Goto(w, "fatal")
                   /\ UNCHANGED issues
              ELSE IF f = "dir"
              THEN /\ issues' = issues \o noSlash
                                  \o <<Issue("DEBUG", <<"target is a directory">>, id)>>
                   /\ workers' = [workers EXCEPT ![w].fPath = IndexPath(fPath)]
                   /\ UNCHANGED aborted
              ELSE /\ Return(w)
                   /\ UNCHANGED <<issues, aborted>>
    /\ UNCHANGED <<Opts, cache, checks>>

\* CheckFile taking the index of a directory for a file: when the index is
\* itself a directory the recursive call returns without looking further
CheckFileAssumesIndexFile(w) ==
    /\ ~aborted
    /\ workers[w].pc = "CheckFile"
    /\ LET id        == workers[w].id
           ref       == RefOf(id)
           fPath     == workers[w].fPath
           checkPath == PathJoin(DirectoryPath, fPath)
           f         == Stat(checkPath)
       IN  /\ log' = Append(log, Access("stat", id, checkPath, 0))
           /\ IF f = "notexist"
              THEN /\ AddIssue(Issue("ERROR", <<"target does not exist">>, id))
                   /\ Return(w)
                   /\ UNCHANGED aborted
              ELSE IF f = "error"
              THEN /\ aborted' = TRUE
                   /\ Goto(w, "fatal")
                   /\ UNCHANGED issues
              ELSE IF f = "dir" /\ ~HasSuffix(ref.Path, <<"/">>)
              THEN /\ AddIssue(Issue("ERROR",
                                     <<"target is a directory, href lacks trailing slash">>, id))
                   /\ Return(w)
                   /\ UNCHANGED aborted
              ELSE IF f = "dir" /\ fPath = AbsolutePath(ref)
              THEN /\ AddIssue(Issue("DEBUG", <<"target is a directory">>, id))
                   /\ workers' = [workers EXCEPT ![w].fPath = IndexPath(fPath)]
                   /\ UNCHANGED aborted
              ELSE /\ Return(w)
                   /\ UNCHANGED <<issues, aborted>>
    /\ UNCHANGED <<Opts, cache, checks>>

\* CheckFile with the recursive call made before "target is a directory" is
\* reported: the issue of each level is added when the level below returns
CheckFileReportsAfter(w) ==
    /\ ~aborted
    /\ workers[w].pc = "CheckFile"
    /\ LET id        == workers[w].id
           ref       == RefOf(id)
           fPath     == workers[w].fPath
           checkPath == PathJoin(DirectoryPath, fPath)
           f         == Stat(checkPath)
           levels    == Len(SelectSeq(log, LAMBDA e : e.by = id /\ e.op = "stat"))
           pending   == [n \in 1..levels |-> Issue("DEBUG", <<"target is a directory">>, id)]
       IN  /\ log' = Append(log, Access("stat", id, checkPath, 0))
           /\ IF f = "notexist"
              THEN /\ issues' = Append(issues, Issue("ERROR", <<"target does not exist">>, id))
                                    \o pending
                   /\ Return(w)
                   /\ UNCHANGED aborted
              ELSE IF f = "error"
              THEN /\ aborted' = TRUE
                   /\ Goto(w, "fatal")
                   /\ UNCHANGED issues
              ELSE IF f = "dir" /\ ~HasSuffix(ref.Path, <<"/">>)
              THEN /\ AddIssue(Issue("ERROR",
                                     <<"target is a directory, href lacks trailing slash">>, id))
                   /\ Return(w)
                   /\ UNCHANGED aborted
              ELSE IF f = "dir"
              THEN /\ workers' = [workers EXCEPT ![w].fPath = IndexPath(fPath)]
                   /\ UNCHANGED <<issues, aborted>>
              ELSE /\ issues' = issues \o pending
                   /\ Return(w)
                   /\ UNCHANGED aborted
    /\ UNCHANGED <<Opts, cache, checks>>

\* one call of CheckFile(ref, fPath), up to its recursive call
CheckFile(w) ==
    /\ ~aborted
    /\ workers[w].pc = "CheckFile"
    /\ LET id        == workers[w].id
           ref       == RefOf(id)
           fPath     == workers[w].fPath
           checkPath == PathJoin(DirectoryPath, fPath)
           f         == Stat(checkPath)
       IN  /\ log' = Append(log, Access("stat", id, checkPath, 0))
           /\ IF f = "notexist"
              THEN /\ AddIssue(Issue("ERROR", <<"target does not exist">>, id))
                   /\ Return(w)
                   /\ UNCHANGED aborted
              ELSE IF f = "error"
              THEN /\ aborted' = TRUE
                   /\ Goto(w, "fatal")
                   /\ UNCHANGED issues
              ELSE IF f = "dir" /\ ~HasSuffix(ref.Path, <<"/">>)
              THEN /\ AddIssue(Issue("ERROR",
                                     <<"target is a directory, href lacks trailing slash">>, id))
                   /\ Return(w)
                   /\ UNCHANGED aborted
              ELSE IF f = "dir"
              THEN /\ AddIssue(Issue("DEBUG", <<"target is a directory">>, id))
                   /\ workers' = [workers EXCEPT ![w].fPath = IndexPath(fPath)]
                   /\ UNCHANGED aborted
              ELSE /\ Return(w)
                   /\ UNCHANGED <<issues, aborted>>
    /\ UNCHANGED <<Opts, cache, checks>>

\* ------------------------------------------------------------------------
\* CheckMailto and CheckTel
\* ------------------------------------------------------------------------
\* CheckMailto without the return after it has reported "mailto is empty"
CheckMailtoNoReturn(w) ==
    /\ ~aborted
    /\ workers[w].pc = "CheckMailto"
    /\ LET id    == workers[w].id
           ref   == RefOf(id)
           empty == IF Len(ref.URL.Opaque) = 0
                    THEN <<Issue("ERROR", <<"mailto is empty">>, id)>>
                    ELSE <<>>
           noAt  == IF ~Contains(ref.URL.Opaque, <<"@">>)
                    THEN <<Issue("ERROR", <<"contains an invalid email address">>, id)>>
                    ELSE <<>>
       IN  IF ~Opts.CheckMailto THEN UNCHANGED issues
           ELSE issues' = issues \o empty \o noAt
    /\ log' = Append(log, Access("call", workers[w].id, <<"CheckMailto">>, 0))
    /\ Return(w)
    /\ UNCHANGED <<Opts, cache, checks, aborted>>

\* CheckMailto without its test for "@"
CheckMailtoNoAt(w) ==
    /\ ~aborted
    /\ workers[w].pc = "CheckMailto"
    /\ LET id  == workers[w].id
           ref == RefOf(id)
       IN  IF ~Opts.CheckMailto THEN UNCHANGED issues
           ELSE IF Len(ref.URL.Opaque) = 0
           THEN AddIssue(Issue("ERROR", <<"mailto is empty">>, id))
           ELSE UNCHANGED issues
    /\ log' = Append(log, Access("call", workers[w].id, <<"CheckMailto">>, 0))
    /\ Return(w)
    /\ UNCHANGED <<Opts, cache, checks, aborted>>

CheckMailto(w) ==
    /\ ~aborted
    /\ workers[w].pc = "CheckMailto"
    /\ LET id  == workers[w].id
           ref == RefOf(id)
       IN  IF ~Opts.CheckMailto THEN UNCHANGED issues
           ELSE IF Len(ref.URL.Opaque) = 0
           THEN AddIssue(Issue("ERROR", <<"mailto is empty">>, id))
           ELSE IF ~Contains(ref.URL.Opaque, <<"@">>)
           THEN AddIssue(Issue("ERROR", <<"contains an invalid email address">>, id))
           ELSE UNCHANGED issues
    /\ log' = Append(log, Access("call", workers[w].id, <<"CheckMailto">>, 0))
    /\ Return(w)
    /\ UNCHANGED <<Opts, cache, checks, aborted>>

CheckTel(w) ==
    /\ ~aborted
    /\ workers[w].pc = "CheckTel"
    /\ LET id  == workers[w].id
           ref == RefOf(id)
       IN  IF ~Opts.CheckTel THEN UNCHANGED issues
           ELSE IF Len(ref.URL.Opaque) = 0
           THEN AddIssue(Issue("ERROR", <<"tel is empty">>, id))
           ELSE UNCHANGED issues
    /\ log' = Append(log, Access("call", workers[w].id, <<"CheckTel">>, 0))
    /\ Return(w)
    /\ UNCHANGED <<Opts, cache, checks, aborted>>

\* ------------------------------------------------------------------------
\* Specifications
\* ------------------------------------------------------------------------
Step(w) ==
    \/ CheckLink(w)
    \/ CheckExternal(w)
    \/ CacheHit(w)
    \/ Do(w)
    \/ Store(w)
    \/ Classify(w)
    \/ CheckInternal(w)
    \/ CheckFile(w)
    \/ CheckMailto(w)
    \/ CheckTel(w)

\* the run as check-link.go has it: one call of CheckLink after the other
Next == Step(Main)

Spec == Init /\ [][Next]_vars

\* the sequential run goes on as long as it has a step to take
SpecFair == Spec /\ WF_vars(Next)

\* the run with a pool of workers, each calling CheckLink for one node at a time
NextConc == \E w \in Workers : Step(w)

SpecConc == Init /\ [][NextConc]_vars


\* ------------------------------------------------------------------------
\* Reading the run: what a call of CheckLink did
\* ------------------------------------------------------------------------
Calls == 1..Len(checks)

\* the call has returned
Completed(id) == id \in Calls /\ \A w \in Workers : workers[w].id # id

IssuesBy(id) == SelectSeq(issues, LAMBDA x : x.by = id)

\* the issues of call id added after the first n issues of the sink
IssuesByAfter(id, n) ==
    SelectSeq(SubSeq(issues, n + 1, Len(issues)), LAMBDA x : x.by = id)

LogBy(id, op) == SelectSeq(log, LAMBDA e : e.by = id /\ e.op = op)

Last(s) == s[Len(s)]

\* the call went into CheckExternal and asked the cache
AskedCache(id) == Len(LogBy(id, "get")) > 0

\* the URL string the call asked the cache for
KeyOf(id) == LogBy(id, "get")[1].arg

\* the request of the call failed
Failed(id) == \E n \in 1..Len(log) : log[n].by = id /\ log[n].op = "do" /\ log[n].val = 0

\* the call asked the cache and got a status, from the cache or from a response
GotStatus(id) == AskedCache(id) /\ Completed(id) /\ ~Failed(id)

\* C1 as stated: whenever CheckExternal checks a URL string twice, the second
\* check makes no request and reports the message the first check reported
C1_AnyTwoChecks ==
    \A i, j \in Calls :
        (i < j /\ Completed(i) /\ Completed(j) /\ AskedCache(i) /\ AskedCache(j)
            /\ KeyOf(i) = KeyOf(j))
        => /\ Len(LogBy(j, "do")) = 0
           /\ Last(IssuesBy(j)).Message = Last(IssuesBy(i)).Message

\* C1 (amended): when CheckExternal checks a URL string twice and the first
\* check got a status, the second check makes no request and adds an issue
\* with the level and the status text of the issue the first check added
C1_CacheIdempotence ==
    \A i, j \in Calls :
        (i < j /\ GotStatus(i) /\ Completed(j) /\ AskedCache(j) /\ KeyOf(i) = KeyOf(j))
        => /\ Len(LogBy(j, "do")) = 0
           /\ Last(IssuesBy(j)).Message = Last(IssuesBy(i)).Message
           /\ Last(IssuesBy(j)).Level = Last(IssuesBy(i)).Level

\* a URL string was checked twice, the first time with a response
C1_Witness ==
    \E i, j \in Calls :
        /\ i < j /\ GotStatus(i) /\ Completed(j) /\ AskedCache(j) /\ KeyOf(i) = KeyOf(j)
        /\ Len(LogBy(i, "do")) = 1
        /\ Len(LogBy(j, "do")) = 0
        /\ Last(IssuesBy(j)).Message = Last(IssuesBy(i)).Message

\* CheckLink hands the node of the call to CheckExternal
GoesExternal(id) ==
    /\ ~IsCanonical(NodeOf(id)) /\ ~IsIgnored(NodeOf(id))
    /\ attrPresent(NodeOf(id).Attr, "href")
    /\ RefOf(id).Scheme \in {HTTP, HTTPS}

\* the two references are of the same URL, up to a query string that the
\* options have stripped
SameTarget(i, j) ==
    LET u == RefOf(i).URL
        v == RefOf(j).URL
    IN  /\ u.Scheme = v.Scheme /\ u.Host = v.Host /\ u.Path = v.Path
        /\ \/ u.RawQuery = v.RawQuery
           \/ /\ Opts.StripQueryString
              /\ ~InList(Opts.StripQueryExcludes, URLString(RefOf(i)))
              /\ ~InList(Opts.StripQueryExcludes, URLString(RefOf(j)))

\* the request of the call was answered with the status
Answered(id, status) ==
    \E n \in 1..Len(log) : log[n].by = id /\ log[n].op = "do" /\ log[n].val = status

\* C2: once the request of a check was answered 404, the cache has 404 for
\* its URL string, and every later check of a reference of the same URL (up
\* to a stripped query string) makes no request and adds ERROR "Not Found"
C2_CachedNotFound ==
    \A i \in Calls :
        (Completed(i) /\ Answered(i, StatusNotFound))
        => /\ CachedURLStatus(KeyOf(i)) = StatusNotFound
           /\ \A j \in Calls :
                (i < j /\ Completed(j) /\ GoesExternal(j) /\ Opts.CheckExternal
                    /\ SameTarget(i, j))
                => /\ Len(LogBy(j, "do")) = 0
                   /\ Len(IssuesBy(j)) > 0
                   /\ Last(IssuesBy(j)).Level = "ERROR"
                   /\ Last(IssuesBy(j)).Message = <<"Not Found">>
                   /\ Last(IssuesBy(j)).Reference = j

\* a 404 was reused for a reference that differs in its query string
C2_Witness ==
    \E i, j \in Calls :
        /\ i < j /\ Completed(i) /\ Completed(j)
        /\ Answered(i, StatusNotFound)
        /\ GoesExternal(j) /\ SameTarget(i, j)
        /\ RefOf(i).URL.RawQuery # RefOf(j).URL.RawQuery
        /\ Len(LogBy(j, "do")) = 0
        /\ Last(IssuesBy(j)).Message = <<"Not Found">>

\* C3: a check whose request failed adds exactly one issue after the
\* request, an ERROR, and writes nothing to the cache; the next check of the
\* same URL string makes a request again; and every cache entry was written
\* by a check right after its request was answered with that status
C3_FailuresNotCached ==
    /\ \A n \in 1..Len(log) :
         (log[n].op = "do" /\ log[n].val = 0 /\ Completed(log[n].by))
         => /\ Len(IssuesByAfter(log[n].by, log[n].at)) = 1
            /\ IssuesByAfter(log[n].by, log[n].at)[1].Level = "ERROR"
            /\ IssuesByAfter(log[n].by, log[n].at)[1].Reference = log[n].by
            /\ Len(LogBy(log[n].by, "set")) = 0
            /\ Len(LogBy(log[n].by, "do")) = 1
    /\ \A i, j \in Calls :
         (/\ i < j /\ Completed(i) /\ Completed(j) /\ Failed(i)
          /\ AskedCache(j) /\ KeyOf(j) = KeyOf(i)
          /\ \A m \in Calls : (i < m /\ m < j /\ AskedCache(m) /\ KeyOf(m) = KeyOf(i))
                                  => Failed(m))
         => Len(LogBy(j, "do")) = 1
    /\ \A k \in DOMAIN cache :
         \E n \in 2..Len(log) :
            /\ log[n].op = "set" /\ log[n].arg = k /\ log[n].val = cache[k]
            /\ log[n - 1].op = "do" /\ log[n - 1].by = log[n].by
            /\ log[n - 1].val = cache[k] /\ cache[k] # 0

\* a request failed, and the next check of the same URL string made a request
C3_Witness ==
    \E i, j \in Calls :
        /\ i < j /\ Completed(i) /\ Completed(j) /\ Failed(i)
        /\ AskedCache(j) /\ KeyOf(j) = KeyOf(i)
        /\ Len(LogBy(j, "do")) = 1
        /\ KeyOf(i) \notin DOMAIN cache


\* C4: in every step, a URL string that has a status in the cache keeps it
C4_StatusSetOnce ==
    [][\A k \in DOMAIN cache :
          cache[k] # 0 => (k \in DOMAIN cache' /\ cache'[k] = cache[k])]_vars

\* CheckLink creates a Reference for the node of the call
RefCreated(id) ==
    /\ ~IsCanonical(NodeOf(id)) /\ ~IsIgnored(NodeOf(id))
    /\ attrPresent(NodeOf(id).Attr, "href") \/ NodeOf(id).Data \notin {"a", "link"}

\* the Reference of the call passes the pre-checks and is routed by its scheme
Routed(id) ==
    /\ RefCreated(id)
    /\ RefOf(id).Path # <<>>
    /\ RefOf(id).Path # <<"#">>

\* the level and the text a status is to be reported with
ExpectedLevel(status) == IF status \in {200, 206} THEN "DEBUG" ELSE "ERROR"

ExpectedText(status) ==
    CASE status = 200 -> <<"OK">>
      [] status = 206 -> <<"Partial Content">>
      [] status = 404 -> <<"Not Found">>
      [] status = 503 -> <<"Service Unavailable">>

\* the status the call got: of the response, else the one read from the cache
StatusOf(id) ==
    IF Len(LogBy(id, "do")) > 0 THEN LogBy(id, "do")[1].val
    ELSE Last(LogBy(id, "get")).val

\* the issue is what the external check of call id has to report
IsExternalOutcome(issue, id) ==
    /\ issue.Reference = id
    /\ IF ~Opts.CheckExternal
       THEN issue.Level = "DEBUG" /\ issue.Message = <<"skipping">>
       ELSE IF Failed(id)
       THEN issue.Level = "ERROR"
       ELSE /\ AskedCache(id)
            /\ issue.Level = ExpectedLevel(StatusOf(id))
            /\ issue.Message = ExpectedText(StatusOf(id))

\* C5: an http reference checked with EnforceHTTPS gets exactly two issues:
\* ERROR "is not an HTTPS target", then the outcome of the one external check
\* that was made after it
C5_EnforceThenCheck ==
    \A i \in Calls :
        (Completed(i) /\ Routed(i) /\ RefOf(i).Scheme = HTTP /\ Opts.EnforceHTTPS)
        => /\ Len(IssuesBy(i)) = 2
           /\ IssuesBy(i)[1].Level = "ERROR"
           /\ IssuesBy(i)[1].Message = <<"is not an HTTPS target">>
           /\ IssuesBy(i)[1].Reference = i
           /\ Len(LogBy(i, "call")) = 1
           /\ LogBy(i, "call")[1].arg = <<"CheckExternal">>
           /\ Len(IssuesByAfter(i, LogBy(i, "call")[1].at)) = 1
           /\ IsExternalOutcome(IssuesBy(i)[2], i)

\* an http reference got the enforcement error and then the status of a response
C5_Witness ==
    \E i \in Calls :
        /\ Completed(i) /\ Routed(i) /\ RefOf(i).Scheme = HTTP /\ Opts.EnforceHTTPS
        /\ Answered(i, StatusOK)
        /\ Len(IssuesBy(i)) = 2
        /\ IssuesBy(i)[2].Message = <<"OK">>

\* the accesses of the call: the checkers entered, cache, network, file system
AccessesBy(id) == SelectSeq(log, LAMBDA e : e.by = id)

\* C6: a Reference with href="" gets exactly one issue, ERROR "href blank",
\* and its check enters no checker and touches neither cache, network nor disk
C6_HrefBlank ==
    \A i \in Calls :
        (RefCreated(i) /\ RefOf(i).Path = <<>>)
        => /\ Completed(i)
           /\ Len(IssuesBy(i)) = 1
           /\ IssuesBy(i)[1].Level = "ERROR"
           /\ IssuesBy(i)[1].Message = <<"href blank">>
           /\ IssuesBy(i)[1].Reference = i
           /\ AccessesBy(i) = <<>>

\* <a href=""> was checked
C6_Witness ==
    \E i \in Calls :
        /\ RefCreated(i) /\ attrPresent(NodeOf(i).Attr, "href") /\ RefOf(i).Path = <<>>
        /\ Len(IssuesBy(i)) = 1
        /\ IssuesBy(i)[1].Message = <<"href blank">>

\* C7: a Reference with href="#" gets exactly one issue, ERROR "empty hash",
\* and its check enters no checker and touches neither cache, network nor disk
C7_EmptyHash ==
    \A i \in Calls :
        (RefCreated(i) /\ RefOf(i).Path = <<"#">>)
        => /\ Completed(i)
           /\ Len(IssuesBy(i)) = 1
           /\ IssuesBy(i)[1].Level = "ERROR"
           /\ IssuesBy(i)[1].Message = <<"empty hash">>
           /\ IssuesBy(i)[1].Reference = i
           /\ AccessesBy(i) = <<>>

\* <a href="#"> was checked
C7_Witness ==
    \E i \in Calls :
        /\ RefCreated(i) /\ RefOf(i).Path = <<"#">>
        /\ Len(IssuesBy(i)) = 1
        /\ IssuesBy(i)[1].Message = <<"empty hash">>

\* the path os.Stat is asked for when the target of call id is looked up
TargetOf(id) == PathJoin(DirectoryPath, AbsolutePath(RefOf(id)))

\* the call is of a file reference to a directory, with a trailing slash
DirWithSlash(id) ==
    /\ Routed(id) /\ RefOf(id).Scheme = FILE /\ Opts.CheckInternal
    /\ Stat(TargetOf(id)) = "dir"
    /\ RefOf(id).Path[Len(RefOf(id).Path)] = "/"

\* C8: a file reference with a trailing slash to a directory gets DEBUG
\* "target is a directory" first, then <path>/<DirectoryIndex> is looked up;
\* when that does not exist the last issue is ERROR "target does not exist"
\* of the same Reference, when it is a regular file there is no other issue
C8_DirectoryResolution ==
    \A i \in Calls :
        (Completed(i) /\ DirWithSlash(i))
        => /\ Len(IssuesBy(i)) >= 1
           /\ IssuesBy(i)[1].Level = "DEBUG"
           /\ IssuesBy(i)[1].Message = <<"target is a directory">>
           /\ IssuesBy(i)[1].Reference = i
           /\ Len(LogBy(i, "stat")) >= 2
           /\ LogBy(i, "stat")[1].arg = TargetOf(i)
           /\ LogBy(i, "stat")[2].arg = TargetOf(i) \o <<"/">> \o DirectoryIndex
           /\ LogBy(i, "stat")[2].at >= 1
           /\ Stat(TargetOf(i) \o <<"/">> \o DirectoryIndex) = "notexist"
                => /\ Len(IssuesBy(i)) = 2
                   /\ Last(IssuesBy(i)).Level = "ERROR"
                   /\ Last(IssuesBy(i)).Message = <<"target does not exist">>
                   /\ Last(IssuesBy(i)).Reference = i
           /\ Stat(TargetOf(i) \o <<"/">> \o DirectoryIndex) = "file"
                => Len(IssuesBy(i)) = 1 /\ Len(LogBy(i, "stat")) = 2

\* a directory without index file and a directory with one were checked
C8_Witness ==
    \E i, j \in Calls :
        /\ Completed(i) /\ DirWithSlash(i) /\ Completed(j) /\ DirWithSlash(j)
        /\ Stat(TargetOf(i) \o <<"/">> \o DirectoryIndex) = "notexist"
        /\ Last(IssuesBy(i)).Message = <<"target does not exist">>
        /\ Stat(TargetOf(j) \o <<"/">> \o DirectoryIndex) = "file"
        /\ Len(IssuesBy(j)) = 1

\* C9: a check that got a status, from a response or from the cache, adds
\* exactly one issue after it asked the cache: DEBUG for 200 and 206, ERROR
\* for every other status, with the status text; no check makes two requests
C9_StatusClassification ==
    \A i \in Calls :
        /\ Len(LogBy(i, "do")) <= 1
        /\ GotStatus(i)
            => /\ Len(IssuesByAfter(i, LogBy(i, "get")[1].at)) = 1
               /\ Last(IssuesBy(i)).Level = ExpectedLevel(StatusOf(i))
               /\ Last(IssuesBy(i)).Message = ExpectedText(StatusOf(i))
               /\ Last(IssuesBy(i)).Reference = i

\* a 206 was reported from a response, and again from the cache
C9_Witness ==
    \E i, j \in Calls :
        /\ GotStatus(i) /\ Answered(i, StatusPartialContent)
        /\ GotStatus(j) /\ Len(LogBy(j, "do")) = 0 /\ StatusOf(j) = StatusPartialContent
        /\ Last(IssuesBy(j)).Level = "DEBUG"
        /\ Last(IssuesBy(j)).Message = <<"Partial Content">>

\* the checker the scheme is to be handed to, none for the other schemes
ExpectedCalls(scheme) ==
    IF scheme \in {HTTP, HTTPS} THEN << <<"CheckExternal">> >>
    ELSE IF scheme = FILE THEN << <<"CheckInternal">> >>
    ELSE IF scheme = MAILTO THEN << <<"CheckMailto">> >>
    ELSE IF scheme = TEL THEN << <<"CheckTel">> >>
    ELSE <<>>

\* the checkers call id has entered, in order
CallsOf(id) == [n \in 1..Len(LogBy(id, "call")) |-> LogBy(id, "call")[n].arg]

\* C10: a Reference that passed the pre-checks is handed to exactly the one
\* checker of its scheme; with any other scheme no checker is entered, no
\* issue is added and nothing is accessed
C10_Dispatch ==
    \A i \in Calls :
        (Completed(i) /\ Routed(i))
        => /\ CallsOf(i) = ExpectedCalls(RefOf(i).Scheme)
           /\ RefOf(i).Scheme \notin {HTTP, HTTPS, FILE, MAILTO, TEL}
                => IssuesBy(i) = <<>> /\ AccessesBy(i) = <<>>

\* a tel reference was handed to CheckTel and an ftp reference to no checker
C10_Witness ==
    \E i, j \in Calls :
        /\ Completed(i) /\ Routed(i) /\ RefOf(i).Scheme = TEL
        /\ CallsOf(i) = << <<"CheckTel">> >>
        /\ Completed(j) /\ Routed(j) /\ RefOf(j).Scheme = <<"f", "t", "p">>
        /\ CallsOf(j) = <<>> /\ IssuesBy(j) = <<>>

\* the node of the call carries rel="canonical" or data-proofer-ignore
Skippable(id) ==
    \E n \in 1..Len(NodeOf(id).Attr) :
        \/ NodeOf(id).Attr[n].Key = "rel" /\ NodeOf(id).Attr[n].Val = CANONICAL
        \/ NodeOf(id).Attr[n].Key = "data-proofer-ignore"

\* the node of the call has an href attribute
HasHref(id) == \E n \in 1..Len(NodeOf(id).Attr) : NodeOf(id).Attr[n].Key = "href"

\* the value of the href attribute of the node of the call, "" without one
HrefOf(id) ==
    IF HasHref(id)
    THEN NodeOf(id).Attr[CHOOSE n \in 1..Len(NodeOf(id).Attr) :
                            NodeOf(id).Attr[n].Key = "href"].Val
    ELSE <<>>

\* the node of the call has no href attribute and is an <a> or a <link>
HrefAbsent(id) == ~HasHref(id) /\ NodeOf(id).Data \in {"a", "link"}

\* C11: a node with rel="canonical" or with data-proofer-ignore is skipped
\* whatever its href: its call is over at once, adds no issue, enters no
\* checker and accesses nothing; the tests for an absent, a blank and a "#"
\* href come after these two in that order (an <a> or <link> without href is
\* never reported as blank, a blank href never as an empty hash), and a
\* checker is entered only when none of the five tests applied
C11_PreCheckPrecedence ==
    \A i \in Calls :
        /\ Skippable(i)
            => Completed(i) /\ IssuesBy(i) = <<>> /\ AccessesBy(i) = <<>>
        /\ (~Skippable(i) /\ HrefAbsent(i))
            => /\ Completed(i) /\ Len(IssuesBy(i)) = 1 /\ AccessesBy(i) = <<>>
               /\ IssuesBy(i)[1].Message \in {<<"anchor without href">>,
                                              <<"link tag missing href">>}
        /\ (~Skippable(i) /\ ~HrefAbsent(i) /\ HrefOf(i) = <<>>)
            => /\ Completed(i) /\ Len(IssuesBy(i)) = 1 /\ AccessesBy(i) = <<>>
               /\ IssuesBy(i)[1].Message = <<"href blank">>
        /\ (~Skippable(i) /\ HrefOf(i) = <<"#">>)
            => /\ Completed(i) /\ Len(IssuesBy(i)) = 1 /\ AccessesBy(i) = <<>>
               /\ IssuesBy(i)[1].Message = <<"empty hash">>
        /\ AccessesBy(i) # <<>>
            => ~Skippable(i) /\ HasHref(i) /\ HrefOf(i) \notin {<<>>, <<"#">>}

\* a canonical link with an https href was skipped, and so was a canonical
\* link without href or an ignored anchor with a blank, a "#" or a file href
C11_Witness ==
    /\ \E i \in Calls :
          /\ Skippable(i) /\ ~HasHref(i)
          /\ Completed(i) /\ IssuesBy(i) = <<>> /\ AccessesBy(i) = <<>>
    /\ \E i \in Calls :
          /\ Skippable(i) /\ HrefOf(i) \in {HrefHttps, <<>>, <<"#">>, HrefMissing}
          /\ HasHref(i)
          /\ Completed(i) /\ IssuesBy(i) = <<>> /\ AccessesBy(i) = <<>>

\* the call is of a mailto reference that passed the pre-checks
IsMailto(id) == ~Skippable(id) /\ HasHref(id) /\ HasPrefix(HrefOf(id), MAILTO \o <<":">>)

\* what follows "mailto:" in the href of the call
MailtoOpaque(id) == SubSeq(HrefOf(id), Len(MAILTO) + 2, Len(HrefOf(id)))

\* C12: with CheckMailto enabled a mailto reference with an empty opaque part
\* gets exactly one issue, ERROR "mailto is empty", one with a non-empty
\* opaque part without "@" exactly one, ERROR "contains an invalid email
\* address", and one with "@" none; with CheckMailto disabled none gets any
C12_Mailto ==
    \A i \in Calls :
        (Completed(i) /\ IsMailto(i))
        => /\ CallsOf(i) = << <<"CheckMailto">> >>
           /\ RefOf(i).URL.Opaque = MailtoOpaque(i)
           /\ ~Opts.CheckMailto => IssuesBy(i) = <<>>
           /\ (Opts.CheckMailto /\ MailtoOpaque(i) = <<>>)
                => IssuesBy(i) = <<Issue("ERROR", <<"mailto is empty">>, i)>>
           /\ (Opts.CheckMailto /\ MailtoOpaque(i) # <<>>
                 /\ \A n \in 1..Len(MailtoOpaque(i)) : MailtoOpaque(i)[n] # "@")
                => IssuesBy(i) = <<Issue("ERROR", <<"contains an invalid email address">>, i)>>
           /\ (Opts.CheckMailto
                 /\ \E n \in 1..Len(MailtoOpaque(i)) : MailtoOpaque(i)[n] = "@")
                => IssuesBy(i) = <<>>

\* with CheckMailto enabled an address without "@" was reported and one with
\* "@" was not, or an empty one was reported; or CheckMailto was disabled and
\* an empty and an invalid address went unreported
C12_Witness ==
    \E i, j \in Calls :
        /\ i # j /\ Completed(i) /\ Completed(j) /\ IsMailto(i) /\ IsMailto(j)
        /\ \/ /\ Opts.CheckMailto
              /\ HrefOf(i) = HrefMailtoNoAt /\ Len(IssuesBy(i)) = 1
              /\ HrefOf(j) \in {HrefMailtoOk, HrefMailtoEmpty}
              /\ Len(IssuesBy(j)) = (IF HrefOf(j) = HrefMailtoOk THEN 0 ELSE 1)
           \/ /\ ~Opts.CheckMailto
              /\ HrefOf(i) = HrefMailtoNoAt /\ HrefOf(j) = HrefMailtoEmpty
              /\ IssuesBy(i) = <<>> /\ IssuesBy(j) = <<>>

\* the issues the call added since it entered its checker
CheckerIssues(id) == IssuesByAfter(id, LogBy(id, "call")[1].at)

\* C13: a disabled CheckExternal adds exactly one issue, DEBUG "skipping" of
\* the Reference, and makes no request and no cache read or write; a disabled
\* CheckInternal adds exactly one issue, DEBUG "skipping" of the Reference,
\* and does not access the file system
C13_DisabledSkips ==
    \A i \in Calls :
        /\ (CallsOf(i) = << <<"CheckExternal">> >> /\ ~Opts.CheckExternal)
            => /\ Completed(i)
               /\ CheckerIssues(i) = <<Issue("DEBUG", <<"skipping">>, i)>>
               /\ Len(AccessesBy(i)) = 1
               /\ cache = <<>>
        /\ (CallsOf(i) = << <<"CheckInternal">> >> /\ ~Opts.CheckInternal)
            => /\ Completed(i)
               /\ IssuesBy(i) = <<Issue("DEBUG", <<"skipping">>, i)>>
               /\ Len(AccessesBy(i)) = 1

\* an https reference was skipped with CheckExternal disabled, or a file
\* reference with CheckInternal disabled
C13_Witness ==
    \E i \in Calls :
        /\ Completed(i) /\ Len(AccessesBy(i)) = 1
        /\ Last(IssuesBy(i)).Message = <<"skipping">>
        /\ \/ CallsOf(i) = << <<"CheckExternal">> >> /\ ~Opts.CheckExternal
           \/ CallsOf(i) = << <<"CheckInternal">> >> /\ ~Opts.CheckInternal

\* the workers whose request for the URL string is under way: they found no
\* status in the cache and httpClient.Do has not returned to them yet
InFlight(urlStr) == {w \in Workers : workers[w].pc = "Do" /\ workers[w].urlStr = urlStr}

\* C14: at any time at most one request is under way for one URL string
C14_Coalescing ==
    \A w \in Workers : Cardinality(InFlight(workers[w].urlStr)) <= 1

\* the issues of one call are in the order the code of its check adds them:
\* "is not an HTTPS target" comes first, and only it and "target is a
\* directory" are followed by another issue of the call
EmissionOrdered(s) ==
    \A n \in 1..Len(s) :
        /\ s[n].Message = <<"is not an HTTPS target">> => n = 1
        /\ n < Len(s) => s[n].Message \in {<<"is not an HTTPS target">>,
                                           <<"target is a directory">>}

\* the calls whose checks are running
Running == {workers[w].id : w \in {v \in Workers : workers[v].pc # "idle"}}

\* C15: under concurrent workers every step leaves the issues of the sink as
\* they are and only appends to them, the appended issues are of a call that
\* is running or starts with the step, and the issues of each call are in the
\* sink in the order its check adds them
C15_AppendOnly ==
    [][/\ Len(issues') >= Len(issues)
       /\ SubSeq(issues', 1, Len(issues)) = issues
       /\ \A n \in (Len(issues) + 1)..Len(issues') :
            \/ issues'[n].by \in Running
            \/ Len(checks') = Len(checks) + 1 /\ issues'[n].by = Len(checks')
       /\ \A i \in 1..Len(checks') :
            /\ Len(IssuesBy(i)') >= Len(IssuesBy(i))
            /\ SubSeq(IssuesBy(i)', 1, Len(IssuesBy(i))) = IssuesBy(i)
            /\ EmissionOrdered(IssuesBy(i)')]_vars

\* two workers are in their checks at the same time, and the issues of the
\* two calls are interleaved in the sink
C15_Witness ==
    \E i, j \in Calls :
        /\ i # j
        /\ Len(IssuesBy(i)) = 2
        /\ \E a, b, c \in 1..Len(issues) :
              /\ a < b /\ b < c
              /\ issues[a].by = i /\ issues[b].by = j /\ issues[c].by = i

\* issue n of the sink was added by the checker of call id
ByChecker(n, id) ==
    /\ issues[n].by = id
    /\ Len(LogBy(id, "call")) > 0
    /\ n > LogBy(id, "call")[1].at

\* after issue n the check of call id added no issue and read no cache, made
\* no request and looked up no file
NothingAfter(n, id) ==
    /\ \A m \in (n + 1)..Len(issues) : issues[m].by # id
    /\ \A k \in 1..Len(log) : (log[k].by = id /\ log[k].op # "call") => log[k].at < n

\* C16 as stated: once a checker has added an issue for a Reference, the
\* check of that Reference adds no further issue and makes no further
\* request or file lookup
C16_CheckerTerminal ==
    \A i \in Calls : \A n \in 1..Len(issues) :
        ByChecker(n, i) => NothingAfter(n, i)

\* C16 (amended): once a checker has added an issue for a Reference other
\* than CheckFile's DEBUG "target is a directory", the check of that
\* Reference adds no further issue and makes no further request or file
\* lookup; "target is a directory" is followed by the lookup of the index
C16_TerminalButDirectory ==
    \A i \in Calls : \A n \in 1..Len(issues) :
        ByChecker(n, i)
        => IF issues[n].Message = <<"target is a directory">>
           THEN \E k \in 1..Len(log) :
                   log[k].by = i /\ log[k].op = "stat" /\ log[k].at < n
           ELSE NothingAfter(n, i) /\ (Completed(i) \/ aborted)

\* a check reported "target is a directory" and went on to report that the
\* index does not exist; a request that failed was reported and ended its check
C16_Witness ==
    \E i, j \in Calls :
        /\ Completed(i) /\ Len(IssuesBy(i)) = 2
        /\ IssuesBy(i)[1].Message = <<"target is a directory">>
        /\ IssuesBy(i)[2].Message = <<"target does not exist">>
        /\ Len(LogBy(i, "stat")) = 2
        /\ Completed(j) /\ Failed(j) /\ Len(IssuesBy(j)) = 1

\* the lookups of call id are a descent from its target, one level at a time
\* through directories, each level reported with one DEBUG "target is a
\* directory" before the next lookup, and no deeper than the site has
\* directories; a descent that is over ended at a regular file with no other
\* issue or at a missing entry with ERROR "target does not exist"
Descent(id) ==
    LET st == LogBy(id, "stat")
    IN  /\ Len(st) <= Cardinality(SiteDirs) + 1
        /\ Len(st) >= 1 => st[1].arg = TargetOf(id)
        /\ \A n \in 2..Len(st) :
              /\ Stat(st[n - 1].arg) = "dir"
              /\ st[n].arg = st[n - 1].arg \o <<"/">> \o DirectoryIndex
              /\ st[n].at = st[n - 1].at + 1
              /\ issues[st[n].at] = Issue("DEBUG", <<"target is a directory">>, id)
        /\ Completed(id)
              => /\ Len(st) >= 2
                 /\ Stat(Last(st).arg) \in {"file", "notexist"}
                 /\ Stat(Last(st).arg) = "file" => Len(IssuesBy(id)) = Len(st) - 1
                 /\ Stat(Last(st).arg) = "notexist"
                      => /\ Len(IssuesBy(id)) = Len(st)
                         /\ Last(IssuesBy(id)) = Issue("ERROR", <<"target does not exist">>, id)

\* C17: CheckFile comes to an end on every directory of the site, also when
\* the index of a directory is a directory at any depth: each recursive call
\* looks up <fPath>/<DirectoryIndex> one level down after one DEBUG "target
\* is a directory", and the descent ends at a regular file with no other
\* issue or with ERROR "target does not exist"
C17_CheckFileTerminates ==
    /\ [](\A i \in Calls : DirWithSlash(i) => Descent(i))
    /\ (workers[Main].pc = "CheckFile") ~> (workers[Main].pc # "CheckFile")

\* a directory whose index is a directory with an index file was resolved
\* in three lookups with two DEBUG issues, and a directory whose index is a
\* directory without index ended with ERROR "target does not exist"
C17_Witness ==
    \E i, j \in Calls :
        /\ Completed(i) /\ DirWithSlash(i) /\ Len(LogBy(i, "stat")) = 3
        /\ Stat(Last(LogBy(i, "stat")).arg) = "file"
        /\ Len(IssuesBy(i)) = 2
        /\ Completed(j) /\ DirWithSlash(j) /\ Len(LogBy(j, "stat")) = 3
        /\ Stat(Last(LogBy(j, "stat")).arg) = "notexist"
        /\ Len(IssuesBy(j)) = 3
        /\ Last(IssuesBy(j)).Message = <<"target does not exist">>

\* the call is of a file reference to a directory, without a trailing slash
DirNoSlash(id) ==
    /\ ~Skippable(id) /\ HasHref(id)
    /\ CallsOf(id) = << <<"CheckInternal">> >> /\ Opts.CheckInternal
    /\ Stat(TargetOf(id)) = "dir"
    /\ HrefOf(id)[Len(HrefOf(id))] # "/"

\* C18: a file reference to a directory whose href does not end in "/" gets
\* exactly one issue, ERROR "target is a directory, href lacks trailing
\* slash" of the Reference, after the one lookup of the target: the index is
\* never looked up and no DEBUG "target is a directory" is added
C18_LacksTrailingSlash ==
    \A i \in Calls :
        (DirNoSlash(i) /\ Len(LogBy(i, "stat")) > 0)
        => /\ Completed(i)
           /\ IssuesBy(i) = <<Issue("ERROR",
                                    <<"target is a directory, href lacks trailing slash">>, i)>>
           /\ Len(LogBy(i, "stat")) = 1
           /\ LogBy(i, "stat")[1].arg = TargetOf(i)
           /\ \A n \in 1..Len(log) :
                 (log[n].by = i /\ log[n].op = "stat")
                 => log[n].arg # TargetOf(i) \o <<"/">> \o DirectoryIndex

\* <a href="d"> was checked where d is a directory with an index file
C18_Witness ==
    \E i \in Calls :
        /\ DirNoSlash(i) /\ Completed(i)
        /\ Stat(TargetOf(i) \o <<"/">> \o DirectoryIndex) = "file"
        /\ Len(IssuesBy(i)) = 1
        /\ IssuesBy(i)[1].Message = <<"target is a directory, href lacks trailing slash">>
        /\ Len(LogBy(i, "stat")) = 1

\* access n is a file lookup with the outcome
Looked(n, outcome) == log[n].op = "stat" /\ Stat(log[n].arg) = outcome

\* C19: a file lookup that fails with another error than not-exist aborts
\* the run: it is the last access of the run, no issue is added after it, its
\* call never returns and no later node is checked; and nothing else aborts
\* the run. A lookup that fails with not-exist adds ERROR "target does not
\* exist" of the Reference as the next issue and its call returns
C19_FatalStat ==
    /\ \A n \in 1..Len(log) :
          Looked(n, "error")
          => /\ aborted
             /\ n = Len(log)
             /\ Len(issues) = log[n].at
             /\ ~Completed(log[n].by)
             /\ Len(checks) = log[n].by
    /\ aborted => Len(log) > 0 /\ Looked(Len(log), "error")
    /\ \A n \in 1..Len(log) :
          Looked(n, "notexist")
          => /\ Completed(log[n].by)
             /\ Len(issues) > log[n].at
             /\ issues[log[n].at + 1]
                  = Issue("ERROR", <<"target does not exist">>, log[n].by)
             /\ Last(IssuesBy(log[n].by)) = issues[log[n].at + 1]

\* the run went on after a lookup that failed with not-exist and was aborted
\* by a later lookup that failed with another error
C19_Witness ==
    /\ aborted
    /\ Len(checks) = 2
    /\ \E n \in 1..Len(log) : log[n].by = 1 /\ Looked(n, "notexist")
    /\ Last(log).by = 2 /\ Looked(Len(log), "error")
    /\ Len(issues) = Last(log).at

\* C20: a node without href that is neither canonical nor ignored gets
\* exactly one issue and enters no checker: an <a> DEBUG "anchor without
\* href" and a <link> ERROR "link tag missing href", both with the Document
\* of the node and no Reference; a node of any other kind is treated as if
\* its href were "": ERROR "href blank" with the Reference
C20_HrefAbsent ==
    \A i \in Calls :
        (~Skippable(i) /\ ~HasHref(i))
        => /\ Completed(i)
           /\ Len(IssuesBy(i)) = 1
           /\ AccessesBy(i) = <<>>
           /\ NodeOf(i).Data = "a"
                => IssuesBy(i)[1] = [Level |-> "DEBUG",
                                     Message |-> <<"anchor without href">>,
                                     Reference |-> NoRef,
                                     Document |-> NodeOf(i).Document, by |-> i]
           /\ NodeOf(i).Data = "link"
                => IssuesBy(i)[1] = [Level |-> "ERROR",
                                     Message |-> <<"link tag missing href">>,
                                     Reference |-> NoRef,
                                     Document |-> NodeOf(i).Document, by |-> i]
           /\ NodeOf(i).Data \notin {"a", "link"}
                => IssuesBy(i)[1] = [Level |-> "ERROR",
                                     Message |-> <<"href blank">>,
                                     Reference |-> i,
                                     Document |-> NoDoc, by |-> i]

\* a <link> without href and an <area> without href were checked
C20_Witness ==
    \E i, j \in Calls :
        /\ ~Skippable(i) /\ ~HasHref(i) /\ NodeOf(i).Data = "link"
        /\ IssuesBy(i)[1].Message = <<"link tag missing href">>
        /\ IssuesBy(i)[1].Document = NodeOf(i).Document
        /\ ~Skippable(j) /\ ~HasHref(j) /\ NodeOf(j).Data = "area"
        /\ IssuesBy(j)[1].Message = <<"href blank">>
        /\ IssuesBy(j)[1].Reference = j

====
